---- MODULE Spec2Model ----
(***************************************************************************)
(* A model of aipdownloader's DocumentDownloader (src/main.py): the        *)
(* freshness check document_is_up_to_date, the transfer download_document  *)
(* and the orchestration loop sync, run one or more times over the same    *)
(* target directory.                                                       *)
(*                                                                         *)
(* Instants are whole hours counted from 2024-01-01T00:00:00Z.  A "naive"  *)
(* datetime (Python's datetime without tzinfo) is the wall-clock reading   *)
(* in hours; which clock it was read from (UTC or the machine's local      *)
(* zone) is not part of the value, exactly as in the code.  File times     *)
(* follow POSIX: st_ctime is the instant of the last inode change.         *)
(***************************************************************************)
EXTENDS Integers, Sequences, FiniteSets, TLC

VARIABLES
    pc,            \* where sync is: start, section, oracle, fetch, append, finalize, done, aborted
    run,           \* number of calls of sync so far
    sec,           \* index in sections of the section being processed
    idx,           \* index in the section's document list of the document being processed
    now,           \* the instant (UTC hours since the epoch)
    tz,            \* the machine's zone: local wall clock = UTC + tz
    catalog,       \* upstream: section name -> sequence of Documents (get_documents)
    remote,        \* upstream: href -> response headers of the resource
    disk,          \* path -> [mtime, ctime, body] for every file under target_path
    dirs,          \* directories that exist under target_path ("." is target_path)
    aip_bundle,    \* the PdfMerger's entries so far: sequence of [path, bookmark]
    bundle_writes, \* every write of bundle_path so far: sequence of [run, entries]
    events,        \* what each run did per document (answers, HEAD requests, fetches,
                   \* appends): set of [run, sec, idx, what]
    started,       \* the instant each call of sync began
    abort,         \* the exception that ended the last run, "" if none
    faults         \* requests and appends that have failed so far

vars == <<pc, run, sec, idx, now, tz, catalog, remote, disk, dirs,
          aip_bundle, bundle_writes, events, started, abort, faults>>

----------------------------------------------------------------------------
(* Bounds of the model *)

\* the clock stops here
MaxNow == 24
\* calls of sync in one behaviour
MaxRuns == 2
\* requests and appends that fail in one behaviour
MaxFaults == 1

----------------------------------------------------------------------------
(* Time *)

\* datetime.fromtimestamp(ts): the local wall-clock reading of an instant
fromtimestamp(ts) == ts + tz

\* naive.timestamp(): a naive reading is taken to be local time
timestamp(naive) == naive - tz

\* datetime.utcnow(): the UTC wall-clock reading of the current instant
utcnow == now

\* datetime.strptime(header, '%a, %d %b %Y %H:%M:%S %Z'): an HTTP date is in
\* GMT and parses to the naive reading of that same instant in UTC
strptime_http(header) == header

IsLeap(year) == (year % 4 = 0 /\ year % 100 # 0) \/ year % 400 = 0

MonthNames == <<"January", "February", "March", "April", "May", "June", "July",
                "August", "September", "October", "November", "December">>

MonthDays(year) == <<31, IF IsLeap(year) THEN 29 ELSE 28, 31, 30, 31, 30,
                     31, 31, 30, 31, 30, 31>>

MonthIndex(word) == CHOOSE m \in 1..12 : MonthNames[m] = word

RECURSIVE DaysBeforeMonth(_, _)
DaysBeforeMonth(m, year) ==
    IF m = 1 THEN 0 ELSE DaysBeforeMonth(m - 1, year) + MonthDays(year)[m - 1]

RECURSIVE DaysBeforeYear(_)
DaysBeforeYear(year) ==
    IF year <= 2024 THEN 0
    ELSE DaysBeforeYear(year - 1) + (IF IsLeap(year - 1) THEN 366 ELSE 365)

\* datetime.strptime(text, '%d %B %Y') accepts the text
strptime_date_ok(eff) ==
    /\ \E m \in 1..12 : MonthNames[m] = eff.month
    /\ eff.year >= 1
    /\ eff.day >= 1
    /\ eff.day <= MonthDays(eff.year)[MonthIndex(eff.month)]

\* its value: midnight of that day, as a naive reading
strptime_date(eff) ==
    24 * (DaysBeforeYear(eff.year) + DaysBeforeMonth(MonthIndex(eff.month), eff.year)
          + (eff.day - 1))

----------------------------------------------------------------------------
(* Upstream *)

sections == <<"GEN", "ENR", "AD", "SUP">>

SectionNames == {sections[i] : i \in 1..Len(sections)}

PDF == "application/pdf"

\* response headers: a function whose domain is the set of headers present;
\* a Last-Modified value is <<>> for the empty string, <<T>> for a date
Headers(ctype, lastmod) ==
    [h \in {"Content-Type"} |-> ctype] @@ [h \in {"Last-Modified"} |-> lastmod]

OnlyContentType(ctype) == [h \in {"Content-Type"} |-> ctype]

OnlyLastModified(lastmod) == [h \in {"Last-Modified"} |-> lastmod]

\* what one published document can look like: the text appended to its
\* display name, the groups the effective-date pattern finds in the name
\* (<<>> when it does not match) and the headers of its resource
Plain == [suffix |-> "", effective |-> <<>>, headers |-> Headers(PDF, <<23>>)]

\* kinds that differ from Plain in the display name
NameKinds == {
    [suffix |-> " effective 2 January 2024",
     effective |-> <<[day |-> 2, month |-> "January", year |-> 2024]>>,
     headers |-> Headers(PDF, <<0>>)],
    [suffix |-> " effective 2 January 2024",
     effective |-> <<[day |-> 2, month |-> "January", year |-> 2024]>>,
     headers |-> Headers(PDF, <<23>>)],
    [suffix |-> " effective 2 January 2024",
     effective |-> <<[day |-> 2, month |-> "January", year |-> 2024]>>,
     headers |-> Headers("text/html", <<0>>)],
    [suffix |-> " effective 30 February 2024",
     effective |-> <<[day |-> 30, month |-> "February", year |-> 2024]>>,
     headers |-> Headers(PDF, <<0>>)] }

\* kinds that differ from Plain in the response headers
HeaderKinds == {
    [suffix |-> "", effective |-> <<>>, headers |-> Headers(PDF, <<0>>)],
    [suffix |-> "", effective |-> <<>>, headers |-> Headers("text/html", <<0>>)],
    [suffix |-> "", effective |-> <<>>, headers |-> OnlyLastModified(<<0>>)],
    [suffix |-> "", effective |-> <<>>, headers |-> OnlyContentType(PDF)],
    [suffix |-> "", effective |-> <<>>, headers |-> Headers(PDF, <<>>)] }

\* the published documents: display name and href (as its path segments)
Published == [GEN |-> << [name |-> "GEN 1.1", href |-> <<"d", "g1.pdf">>] >>,
              ENR |-> << [name |-> "ENR 1.1", href |-> <<"d", "a.pdf">>],
                         [name |-> "ENR 1.2", href |-> <<"d", "b.pdf">>] >>,
              AD  |-> << >>,
              SUP |-> << [name |-> "SUP 24/1", href |-> <<"s", "s1.pdf">>],
                         [name |-> "SUP 24/2", href |-> <<"t", "s1.pdf">>] >>]

Hrefs == UNION {{Published[s][i].href : i \in 1..Len(Published[s])} : s \in SectionNames}

\* class Document: the name and href of a tag, with what the effective-date
\* pattern finds in the name
Document(base, kind) ==
    [name |-> base.name \o kind.suffix, href |-> base.href, effective |-> kind.effective]

\* Path(href).name: the final path segment
PathName(href) == href[Len(href)]

StandardSections == SectionNames \ {"SUP"}


----------------------------------------------------------------------------
(* The file system under target_path *)

\* a path below target_path: <<section directory, file name>>
PathOf(section, document) == <<section, PathName(document.href)>>

exists(path) == path \in DOMAIN disk

\* the file system after a file is created or rewritten
WithFile(d, path, file) ==
    [p \in DOMAIN d \cup {path} |-> IF p = path THEN file ELSE d[p]]

\* shutil.rmtree(section_path): every file below the directory goes
rmtree(section) == [p \in {q \in DOMAIN disk : q[1] # section} |-> disk[p]]

\* a variant of cleanup that never removes anything
cleanup_skipped(section) == disk

\* sync, lines 143-145: only the supplements directory is cleaned
cleanup(section) ==
    IF section = "SUP" /\ section \in dirs THEN rmtree(section) ELSE disk

----------------------------------------------------------------------------
(* document_is_up_to_date *)

\* the verdicts that make document_is_up_to_date return True
SkipVerdicts == {"NotYetEffective", "InvalidContentType", "UpToDate"}

\* the exceptions document_is_up_to_date lets escape
Exceptions == {"ValueError", "HTTPError", "KeyError"}

\* a variant of line 83 with the comparison turned round
not_yet_effective_reversed(effective_date) == effective_date < utcnow

\* line 83
not_yet_effective(effective_date) == utcnow < effective_date

\* a variant of line 103 that reads st_mtime
dest_time_from_mtime(dest_file) == fromtimestamp(disk[dest_file].mtime)

\* line 103: the file's time that is compared with the remote's
dest_time(dest_file) == fromtimestamp(disk[dest_file].ctime)

\* a variant of line 106 that takes an equal time for newer
is_newer_or_equal(dest_ctime, src_last_mod) == dest_ctime >= src_last_mod

\* line 106
is_newer(dest_ctime, src_last_mod) == dest_ctime > src_last_mod

\* a variant of document_is_up_to_date that sends the HEAD request and
\* applies the content-type rule first, and the effective-date rule after
document_is_up_to_date_head_first(document, dest_file, head_ok) ==
    LET matched == document.effective # <<>>
        head == remote[document.href]
    IN  IF ~head_ok THEN "HTTPError"
        ELSE IF "Content-Type" \notin DOMAIN head THEN "KeyError"
        ELSE IF head["Content-Type"] # PDF THEN "InvalidContentType"
        ELSE IF matched /\ ~strptime_date_ok(document.effective[1]) THEN "ValueError"
        ELSE IF matched /\ not_yet_effective(strptime_date(document.effective[1]))
            THEN "NotYetEffective"
        ELSE IF "Last-Modified" \notin DOMAIN head THEN "KeyError"
        ELSE IF /\ exists(dest_file)
                /\ head["Last-Modified"] # <<>>
                /\ is_newer(dest_time(dest_file),
                            strptime_http(head["Last-Modified"][1]))
            THEN "UpToDate"
        ELSE "NeedsFetch"

\* The result for one document: the verdict behind a returned True, or
\* "NeedsFetch" for a returned False, or the exception raised.  head_ok is
\* whether the HEAD request comes back with a success status.
document_is_up_to_date(document, dest_file, head_ok) ==
    LET matched == document.effective # <<>>
        head == remote[document.href]
    IN  IF matched /\ ~strptime_date_ok(document.effective[1]) THEN "ValueError"
        ELSE IF matched /\ not_yet_effective(strptime_date(document.effective[1]))
            THEN "NotYetEffective"
        ELSE IF ~head_ok THEN "HTTPError"
        ELSE IF "Content-Type" \notin DOMAIN head THEN "KeyError"
        ELSE IF head["Content-Type"] # PDF THEN "InvalidContentType"
        ELSE IF "Last-Modified" \notin DOMAIN head THEN "KeyError"
        ELSE IF /\ exists(dest_file)
                /\ head["Last-Modified"] # <<>>
                /\ is_newer(dest_time(dest_file),
                            strptime_http(head["Last-Modified"][1]))
            THEN "UpToDate"
        ELSE "NeedsFetch"

\* lines 76-88: whether document_is_up_to_date sends its HEAD request; it
\* does not when it has raised at line 81 or returned at line 85
head_requested(document) ==
    LET matched == document.effective # <<>>
    IN  IF matched /\ ~strptime_date_ok(document.effective[1]) THEN FALSE
        ELSE IF matched /\ not_yet_effective(strptime_date(document.effective[1]))
            THEN FALSE
        ELSE TRUE

----------------------------------------------------------------------------
(* download_document *)

\* how a GET can go: a success status and a whole body, an error status, or
\* a connection that breaks while the body is read
Transfers == {"ok", "status", "stream"}

\* What download_document leaves behind: the file system and the exception
\* it raised ("" when it returned).
download_document(document, dest_file, transfer) ==
    LET resp == remote[document.href]
        written(body) == [mtime |-> now, ctime |-> now, body |-> body]
    IN  IF transfer = "status" THEN [disk |-> disk, exc |-> "HTTPError"]
        ELSE IF transfer = "stream"
            THEN [disk |-> WithFile(disk, dest_file, written("partial")),
                  exc |-> "ConnectionError"]
        ELSE IF "Last-Modified" \notin DOMAIN resp
            THEN [disk |-> WithFile(disk, dest_file, written("complete")),
                  exc |-> "KeyError"]
        ELSE IF resp["Last-Modified"] = <<>>
            THEN [disk |-> WithFile(disk, dest_file, written("complete")), exc |-> ""]
        ELSE [disk |-> WithFile(disk, dest_file,
                          [mtime |-> timestamp(strptime_http(resp["Last-Modified"][1])),
                           ctime |-> now,
                           body |-> "complete"]),
              exc |-> ""]

----------------------------------------------------------------------------
(* sync *)

section == sections[sec]

documents == catalog[section]

document == documents[idx]

dest_file == PathOf(section, document)

\* a variant of line 162 that prefixes the section in every section
bookmark_name_prefixed(sect, doc) == sect \o " " \o doc.name

\* line 162
bookmark_name(sect, doc) == IF sect = "SUP" THEN doc.name ELSE sect \o " " \o doc.name

Logged(what) == events \cup {[run |-> run, sec |-> sec, idx |-> idx, what |-> what]}

\* the call of document_is_up_to_date for the current document: its HEAD
\* request, if it sent one, and its answer
Checked(verdict) ==
    Logged(verdict) \cup (IF head_requested(document) THEN Logged("HEAD") ELSE {})

\* the for loops move on: the next document, the next section, or the write
NextSection ==
    IF sec < Len(sections)
    THEN pc' = "section" /\ sec' = sec + 1 /\ idx' = 0
    ELSE pc' = "finalize" /\ sec' = sec /\ idx' = 0

Continue ==
    /\ abort' = abort
    /\ IF idx < Len(documents)
       THEN pc' = "oracle" /\ sec' = sec /\ idx' = idx + 1
       ELSE NextSection

\* an exception leaves sync
Raise(exc) == pc' = "aborted" /\ abort' = exc /\ UNCHANGED <<sec, idx>>

\* a variant of sync without the try block: the exception leaves sync
HandleDownloadError_uncaught(exc) == Raise(exc)

\* lines 158-160: except Exception: log and continue
HandleDownloadError(exc) == Continue

\* a variant of lines 137-138 that makes the PdfMerger once for the object:
\* a later call of sync goes on with the bundle of the call before
StartSync_reusing_bundle ==
    /\ pc \in {"start", "done"}
    /\ run < MaxRuns
    /\ run' = run + 1
    /\ started' = Append(started, now)
    /\ dirs' = dirs \cup {"."}
    /\ pc' = "section" /\ sec' = 1 /\ idx' = 0 /\ abort' = ""
    /\ UNCHANGED <<now, tz, catalog, remote, disk, aip_bundle, bundle_writes, events, faults>>

\* lines 134-138; sync is called again only after a call that returned
StartSync ==
    /\ pc \in {"start", "done"}
    /\ run < MaxRuns
    /\ run' = run + 1
    /\ started' = Append(started, now)
    /\ dirs' = dirs \cup {"."}
    /\ aip_bundle' = <<>>
    /\ pc' = "section" /\ sec' = 1 /\ idx' = 0 /\ abort' = ""
    /\ UNCHANGED <<now, tz, catalog, remote, disk, bundle_writes, events, faults>>

\* lines 140-149, get_documents returns the section's list
EnterSection ==
    /\ pc = "section"
    /\ disk' = cleanup(section)
    /\ dirs' = dirs \cup {section}
    /\ abort' = abort
    /\ IF Len(documents) > 0
       THEN pc' = "oracle" /\ sec' = sec /\ idx' = 1
       ELSE NextSection
    /\ UNCHANGED <<run, now, tz, catalog, remote, aip_bundle, bundle_writes, events, started,
                   faults>>

\* lines 140-149, get_tags raises (raise_for_status on the category page)
EnterSectionFails ==
    /\ pc = "section"
    /\ faults < MaxFaults
    /\ faults' = faults + 1
    /\ disk' = cleanup(section)
    /\ dirs' = dirs \cup {section}
    /\ Raise("HTTPError")
    /\ UNCHANGED <<run, now, tz, catalog, remote, aip_bundle, bundle_writes, events, started>>

\* a variant of lines 153-154 without the continue: the document goes on to
\* download_document
CheckSkips_without_continue ==
    /\ pc = "oracle"
    /\ LET verdict == document_is_up_to_date(document, dest_file, TRUE)
       IN  /\ verdict \in SkipVerdicts
           /\ events' = Checked(verdict)
    /\ pc' = "fetch"
    /\ UNCHANGED <<run, sec, idx, now, tz, catalog, remote, disk, dirs, aip_bundle,
                   bundle_writes, started, abort, faults>>

\* lines 150-154, document_is_up_to_date returns True
CheckSkips ==
    /\ pc = "oracle"
    /\ LET verdict == document_is_up_to_date(document, dest_file, TRUE)
       IN  /\ verdict \in SkipVerdicts
           /\ events' = Checked(verdict)
    /\ Continue
    /\ UNCHANGED <<run, now, tz, catalog, remote, disk, dirs, aip_bundle, bundle_writes, started,
                   faults>>

\* lines 150-153, document_is_up_to_date returns False
CheckNeedsFetch ==
    /\ pc = "oracle"
    /\ document_is_up_to_date(document, dest_file, TRUE) = "NeedsFetch"
    /\ events' = Checked("NeedsFetch")
    /\ pc' = "fetch"
    /\ UNCHANGED <<run, sec, idx, now, tz, catalog, remote, disk, dirs, aip_bundle,
                   bundle_writes, started, abort, faults>>

\* line 153, document_is_up_to_date raises on what the document is (its name
\* or its headers): nothing in sync catches it
CheckRaises ==
    /\ pc = "oracle"
    /\ LET verdict == document_is_up_to_date(document, dest_file, TRUE)
       IN  /\ verdict \in Exceptions
           /\ events' = Checked(verdict)
           /\ Raise(verdict)
    /\ UNCHANGED <<run, now, tz, catalog, remote, disk, dirs, aip_bundle, bundle_writes, started,
                   faults>>

\* line 153, document_is_up_to_date raises on a failed HEAD request
ProbeFails ==
    /\ pc = "oracle"
    /\ faults < MaxFaults
    /\ LET verdict == document_is_up_to_date(document, dest_file, FALSE)
       IN  /\ verdict = "HTTPError"
           /\ events' = Checked(verdict)
           /\ Raise(verdict)
    /\ faults' = faults + 1
    /\ UNCHANGED <<run, now, tz, catalog, remote, disk, dirs, aip_bundle, bundle_writes, started>>

\* lines 156-157, download_document returns
Download ==
    /\ pc = "fetch"
    /\ LET res == download_document(document, dest_file, "ok")
       IN  /\ res.exc = ""
           /\ disk' = res.disk
    /\ events' = Logged("Fetched")
    /\ pc' = "append"
    /\ UNCHANGED <<run, sec, idx, now, tz, catalog, remote, dirs, aip_bundle,
                   bundle_writes, started, abort, faults>>

\* lines 156-160, download_document raises: on a failed transfer, or on the
\* headers of a transfer that went well
DownloadFails ==
    /\ pc = "fetch"
    /\ \E transfer \in Transfers :
         LET res == download_document(document, dest_file, transfer)
         IN  /\ res.exc # ""
             /\ transfer # "ok" => faults < MaxFaults
             /\ faults' = IF transfer # "ok" THEN faults + 1 ELSE faults
             /\ disk' = res.disk
             /\ HandleDownloadError(res.exc)
    /\ events' = Logged("FetchFailed")
    /\ UNCHANGED <<run, now, tz, catalog, remote, dirs, aip_bundle, bundle_writes, started>>

\* a variant of line 164 that puts the new entry in front of the others
AppendToBundle_in_front ==
    /\ pc = "append"
    /\ aip_bundle' = <<[path |-> dest_file,
                        bookmark |-> bookmark_name(section, document)]>> \o aip_bundle
    /\ events' = Logged("Appended")
    /\ Continue
    /\ UNCHANGED <<run, now, tz, catalog, remote, disk, dirs, bundle_writes, started, faults>>

\* lines 162-164
AppendToBundle ==
    /\ pc = "append"
    /\ aip_bundle' = Append(aip_bundle, [path |-> dest_file,
                                         bookmark |-> bookmark_name(section, document)])
    /\ events' = Logged("Appended")
    /\ Continue
    /\ UNCHANGED <<run, now, tz, catalog, remote, disk, dirs, bundle_writes, started, faults>>

\* a variant of sync with line 164 inside the try block: the handler of
\* lines 158-160 logs the exception and continues
AppendFails_caught ==
    /\ pc = "append"
    /\ faults < MaxFaults
    /\ faults' = faults + 1
    /\ events' = Logged("AppendFailed")
    /\ Continue
    /\ UNCHANGED <<run, now, tz, catalog, remote, disk, dirs, aip_bundle, bundle_writes,
                   started>>

\* line 164, PdfMerger.append raises (the file is not a readable PDF)
AppendFails ==
    /\ pc = "append"
    /\ faults < MaxFaults
    /\ faults' = faults + 1
    /\ events' = Logged("AppendFailed")
    /\ Raise("PdfReadError")
    /\ UNCHANGED <<run, now, tz, catalog, remote, disk, dirs, aip_bundle, bundle_writes,
                   started>>

\* lines 166-169
WriteBundle ==
    /\ pc = "finalize"
    /\ bundle_writes' = Append(bundle_writes, [run |-> run, entries |-> aip_bundle])
    /\ pc' = "done"
    /\ UNCHANGED <<run, sec, idx, now, tz, catalog, remote, disk, dirs, aip_bundle,
                   events, started, abort, faults>>

\* time passes between two calls of sync (a call is over within the hour)
Tick ==
    /\ now < MaxNow
    /\ pc \in {"start", "done"}
    /\ now' = now + 1
    /\ UNCHANGED <<pc, run, sec, idx, tz, catalog, remote, disk, dirs, aip_bundle,
                   bundle_writes, events, started, abort, faults>>

----------------------------------------------------------------------------
(* Initial states *)

\* the machine's zone, in hours east of UTC
Zones == {-1, 0, 1}

\* the documents that vary.  Those of ENR vary in kind, as in "ENR 1.1
\* effective ..." followed by "ENR 1.2": the first in its name, the second in
\* its headers.  The second supplement varies in being listed at all: it is
\* a plain document whose href ends in the file name of the first.
Slots == {<<"ENR", i>> : i \in 1..Len(Published.ENR)} \cup {<<"SUP", 2>>}

KindsAt(slot) ==
    {Plain} \cup (IF slot[1] = "SUP" THEN {}
                  ELSE IF slot[2] = 1 THEN NameKinds ELSE HeaderKinds)

\* how many documents of a section get_documents returns
Listed(s, slot) == IF s = "SUP" /\ slot[1] # "SUP" THEN 1 ELSE Len(Published[s])

\* upstream with the document in one slot of the given kind, the others plain
CatalogWith(slot, kind) ==
    [s \in SectionNames |->
        [i \in 1..Listed(s, slot) |->
            Document(Published[s][i], IF <<s, i>> = slot THEN kind ELSE Plain)]]

RemoteWith(slot, kind) ==
    [h \in Hrefs |->
        IF h = Published[slot[1]][slot[2]].href THEN kind.headers ELSE Plain.headers]

\* a mirror left by an earlier use of the directory, an hour ago: every
\* published file and, in every section, one that is no longer published
OldFiles == {<<s, "old.pdf">> : s \in SectionNames} \cup
            UNION {{<<s, PathName(Published[s][i].href)>> : i \in 1..Len(Published[s])}
                   : s \in SectionNames}

OldMirror == [p \in OldFiles |-> [mtime |-> 22, ctime |-> 22, body |-> "complete"]]

Init ==
    /\ pc = "start" /\ run = 0 /\ sec = 0 /\ idx = 0
    /\ now = 23
    /\ tz \in Zones
    /\ \E slot \in Slots :
       \E kind \in KindsAt(slot) :
         /\ catalog = CatalogWith(slot, kind)
         /\ remote = RemoteWith(slot, kind)
    /\ \/ disk = <<>> /\ dirs = {}
       \/ disk = OldMirror /\ dirs = SectionNames \cup {"."}
    /\ aip_bundle = <<>>
    /\ bundle_writes = <<>>
    /\ events = {}
    /\ started = <<>>
    /\ abort = ""
    /\ faults = 0

Next ==
    \/ StartSync
    \/ EnterSection
    \/ EnterSectionFails
    \/ CheckSkips
    \/ CheckNeedsFetch
    \/ CheckRaises
    \/ ProbeFails
    \/ Download
    \/ DownloadFails
    \/ AppendToBundle
    \/ AppendFails
    \/ WriteBundle
    \/ Tick

Spec == Init /\ [][Next]_vars

----------------------------------------------------------------------------
(* Vocabulary of the properties *)

Ev(r, s, i, what) == [run |-> r, sec |-> s, idx |-> i, what |-> what] \in events

DocAt(e) == catalog[sections[e.sec]][e.idx]

PathAt(e) == PathOf(sections[e.sec], DocAt(e))

\* the remote declares a last-modified instant
DeclaresLastModified(doc) ==
    /\ "Last-Modified" \in DOMAIN remote[doc.href]
    /\ remote[doc.href]["Last-Modified"] # <<>>

LastModified(doc) == remote[doc.href]["Last-Modified"][1]

HasPdfType(doc) ==
    /\ "Content-Type" \in DOMAIN remote[doc.href]
    /\ remote[doc.href]["Content-Type"] = PDF

\* the name encodes an effective date that is strictly after the instant
EffectiveLater(doc) ==
    /\ doc.effective # <<>>
    /\ strptime_date_ok(doc.effective[1])
    /\ now < strptime_date(doc.effective[1])

\* the effective-date rule lets the document through: no date in the name,
\* or a date that has been reached
NotGated(doc) ==
    \/ doc.effective = <<>>
    \/ /\ strptime_date_ok(doc.effective[1])
       /\ ~(now < strptime_date(doc.effective[1]))

\* what document_is_up_to_date can answer or raise
Answers == SkipVerdicts \cup Exceptions \cup {"NeedsFetch"}

\* the step in which document_is_up_to_date answers for the current document
OracleAnswers(what) ==
    /\ pc = "oracle"
    /\ [run |-> run, sec |-> sec, idx |-> idx, what |-> what] \in events' \ events

\* the documents of one run in processing order, as <<sec, idx>> pairs
RECURSIVE SlotsFrom(_, _)
SlotsFrom(s, i) ==
    IF s > Len(sections) THEN <<>>
    ELSE IF i > Len(catalog[sections[s]]) THEN SlotsFrom(s + 1, 1)
    ELSE <<(<<s, i>>)>> \o SlotsFrom(s, i + 1)

\* the bundle entries of the documents run r fetched, in processing order
RECURSIVE EntriesOf(_, _)
EntriesOf(r, slots) ==
    IF slots = <<>> THEN <<>>
    ELSE LET s == Head(slots)[1]
             i == Head(slots)[2]
             doc == catalog[sections[s]][i]
         IN  (IF Ev(r, s, i, "Fetched")
              THEN <<[path |-> PathOf(sections[s], doc),
                     bookmark |-> (IF sections[s] = "SUP" THEN doc.name
                                   ELSE sections[s] \o " " \o doc.name)]>>
              ELSE <<>>) \o EntriesOf(r, Tail(slots))

----------------------------------------------------------------------------
(* C1 *)

\* the first run returned and none of its fetches failed
FirstRunClean ==
    /\ Len(bundle_writes) >= 1
    /\ \A e \in events : e.run = 1 => e.what # "FetchFailed"

----------------------------------------------------------------------------
(* C2 *)

\* C2, as stated: with no failed request and no document waiting for its
\* effective date, the second run writes the same bundle as the first.
C2_SameBundleTwice ==
    ( /\ Len(bundle_writes) >= 2
      /\ faults = 0
      /\ \A e \in events : e.what # "NotYetEffective" )
    => bundle_writes[2].entries = bundle_writes[1].entries

----------------------------------------------------------------------------
(* C3 *)

\* C3: while the effective date in a document's name is still ahead, every
\* answer the document has had is NotYetEffective, it has not been fetched,
\* and it is in no bundle.
C3_EffectiveDateGating ==
    \A s \in 1..Len(sections) : \A i \in 1..Len(catalog[sections[s]]) :
        LET doc == catalog[sections[s]][i]
            path == PathOf(sections[s], doc)
        IN  EffectiveLater(doc) =>
              /\ \A e \in events :
                    (e.sec = s /\ e.idx = i) => e.what = "NotYetEffective"
              /\ \A k \in 1..Len(aip_bundle) : aip_bundle[k].path # path
              /\ \A w \in 1..Len(bundle_writes) :
                    \A k \in 1..Len(bundle_writes[w].entries) :
                       bundle_writes[w].entries[k].path # path

\* a run that skipped a document not yet effective whose local file exists
\* and reads newer than the remote copy
C3_Witness ==
    /\ pc = "done"
    /\ \E e \in events :
         /\ EffectiveLater(DocAt(e))
         /\ e.what = "NotYetEffective"
         /\ exists(PathAt(e))
         /\ fromtimestamp(disk[PathAt(e)].ctime) > LastModified(DocAt(e))

\* the same with a local file that reads older than the remote copy, and
\* with no local file
C3_SkippedThoughStale ==
    /\ pc = "done"
    /\ \E e \in events :
         /\ EffectiveLater(DocAt(e))
         /\ e.what = "NotYetEffective"
         /\ exists(PathAt(e))
         /\ fromtimestamp(disk[PathAt(e)].ctime) < LastModified(DocAt(e))

C3_SkippedThoughAbsent ==
    /\ pc = "done"
    /\ \E e \in events :
         /\ EffectiveLater(DocAt(e))
         /\ e.what = "NotYetEffective"
         /\ ~exists(PathAt(e))

----------------------------------------------------------------------------
(* C4 *)

\* the current document passes the effective-date rule and the content-type
\* rule, and its remote declares a last-modified instant
Comparable ==
    /\ NotGated(document)
    /\ HasPdfType(document)
    /\ DeclaresLastModified(document)

----------------------------------------------------------------------------
(* C5 *)

\* the run returned with every document of every section answered for
AllProcessed ==
    \A s \in 1..Len(sections) : \A i \in 1..Len(catalog[sections[s]]) :
        \E what \in Answers : Ev(run, s, i, what)

\* C5: a fetch that raises does not end the run, and a run in which a fetch
\* raised and that reaches the write has answered for every document of every
\* section and holds, in processing order, exactly the documents it fetched:
\* no entry of the bundle carries the label of a document whose fetch raised.
C5_FailedFetchIsolated ==
    /\ ~(pc = "aborted" /\ idx > 0 /\ Ev(run, sec, idx, "FetchFailed"))
    /\ ( /\ pc \in {"finalize", "done"}
         /\ \E e \in events : e.run = run /\ e.what = "FetchFailed" )
       => /\ AllProcessed
          /\ aip_bundle = EntriesOf(run, SlotsFrom(1, 1))
          /\ \A e \in events :
               (e.run = run /\ e.what = "FetchFailed") =>
                  \A k \in 1..Len(aip_bundle) :
                     aip_bundle[k].bookmark # bookmark_name(sections[e.sec], DocAt(e))

\* the first ENR fetch failed; the second ENR document and the supplement
\* were fetched after it and are in the bundle in that order
C5_Witness ==
    /\ pc = "done"
    /\ Ev(run, 2, 1, "FetchFailed")
    /\ Ev(run, 2, 2, "Fetched")
    /\ Ev(run, 4, 1, "Fetched")
    /\ Len(aip_bundle) >= 2
    /\ aip_bundle[Len(aip_bundle) - 1].path = <<"ENR", "b.pdf">>
    /\ aip_bundle[Len(aip_bundle)].path = <<"SUP", "s1.pdf">>

----------------------------------------------------------------------------
(* C6 *)

\* C6, as stated: a HEAD request that fails for a document does not end the
\* run: the run goes on past that document.
C6_FailedProbeRecovered ==
    ~(pc = "aborted" /\ idx > 0 /\ abort = "HTTPError" /\ Ev(run, sec, idx, "HTTPError"))

----------------------------------------------------------------------------
(* C7 *)

\* C7, as stated: no fault of a single document ends the run; a run ends
\* early only on a failure of the bundle (PdfMerger) or of a section as a
\* whole (its directory or its page).
C7_OnlyAssemblyEndsRun ==
    pc = "aborted" => (abort = "PdfReadError" \/ idx = 0)

----------------------------------------------------------------------------
(* C8 *)

SupFileNames == {PathName(catalog.SUP[i].href) : i \in 1..Len(catalog.SUP)}

\* the run has entered the SUP section
SupEntered == run >= 1 /\ sec = Len(sections) /\ pc # "section"

\* C8: once a run has entered SUP, the SUP directory holds no file that is
\* not of the current SUP list, and no step removes a file of GEN, ENR or AD.
C8_SupplementsReplaced ==
    /\ [](SupEntered => \A p \in DOMAIN disk : p[1] = "SUP" => p[2] \in SupFileNames)
    /\ [][ \A p \in DOMAIN disk : p[1] \in StandardSections => p \in DOMAIN disk' ]_vars

\* a first run returned over an old mirror: the stale supplement is gone,
\* the stale GEN file is still there
C8_Witness ==
    /\ pc = "done" /\ run = 1
    /\ <<"GEN", "old.pdf">> \in DOMAIN disk
    /\ <<"SUP", "old.pdf">> \notin DOMAIN disk
    /\ <<"SUP", "s1.pdf">> \in DOMAIN disk

----------------------------------------------------------------------------
(* C9 *)

\* C9, as stated: right after a fetch of a document whose remote declares
\* last-modified instant T, the file's modification instant is T.
C9_TimestampIsLastModified ==
    (pc = "append" /\ DeclaresLastModified(document))
    => disk[dest_file].mtime = LastModified(document)

----------------------------------------------------------------------------
(* C10 *)

\* the remote declares no last-modified instant: no header, or an empty one
NoLastModified(doc) == ~DeclaresLastModified(doc)

\* C10, as stated: a document with no effective date in its name, the PDF
\* content type and no last-modified instant is answered NeedsFetch whenever
\* its HEAD request succeeds, and right after its fetch the file's
\* modification instant is the instant of its writing.
C10_NoLastModifiedIsFetched ==
    /\ \A e \in events :
         ( /\ DocAt(e).effective = <<>>
           /\ HasPdfType(DocAt(e))
           /\ NoLastModified(DocAt(e))
           /\ e.what \in Answers \ {"HTTPError"} )
         => e.what = "NeedsFetch"
    /\ ( /\ pc = "append"
         /\ document.effective = <<>>
         /\ NoLastModified(document) )
       => disk[dest_file].mtime = disk[dest_file].ctime

----------------------------------------------------------------------------
(* C11 *)

\* C11, as stated: whatever way a transfer ends, no file under a final name
\* holds a body that was written only in part.
C11_NoTruncatedFile ==
    \A p \in DOMAIN disk : disk[p].body # "partial"

----------------------------------------------------------------------------
(* C12 *)

\* the documents run r fetched, as <<sec, idx>> pairs: the sections in the
\* order of the sections table and, within a section, the documents in the
\* order of the section's list
FetchedSlots(r) ==
    SelectSeq(SlotsFrom(1, 1), LAMBDA sl : Ev(r, sl[1], sl[2], "Fetched"))

\* C12: when a run reaches the write of the bundle, the bundle holds one
\* entry for each document the run fetched and no other entry, and the
\* entries stand in the order of the sections (GEN, ENR, AD, SUP) and, within
\* a section, of the section's list.
C12_BundleMembershipAndOrder ==
    (pc \in {"finalize", "done"} /\ run >= 1) =>
        LET fetched == FetchedSlots(run)
        IN  /\ Len(aip_bundle) = Len(fetched)
            /\ \A k \in 1..Len(fetched) :
                  aip_bundle[k].path =
                     PathOf(sections[fetched[k][1]],
                            catalog[sections[fetched[k][1]]][fetched[k][2]])

\* a run that fetched the GEN document, skipped the first ENR document,
\* fetched the second and the supplement, and wrote the bundle
C12_Witness ==
    /\ pc = "done"
    /\ Ev(run, 1, 1, "Fetched")
    /\ \E what \in SkipVerdicts : Ev(run, 2, 1, what)
    /\ Ev(run, 2, 2, "Fetched")
    /\ Ev(run, 4, 1, "Fetched")
    /\ Len(aip_bundle) >= 3

----------------------------------------------------------------------------
(* C13 *)

\* the documents the current run has appended, in processing order
AppendedSlots == SelectSeq(SlotsFrom(1, 1), LAMBDA sl : Ev(run, sl[1], sl[2], "Appended"))

\* C13: when a run has come to its end, by the write of the bundle or by an
\* exception, the bundle holds one entry for each document the run appended;
\* the entry of a document of GEN, ENR or AD is labelled with the section, a
\* space and the display name, and the entry of a document of SUP with the
\* display name alone.
C13_BookmarkLabels ==
    pc \in {"finalize", "done", "aborted"} =>
        /\ Len(aip_bundle) = Len(AppendedSlots)
        /\ \A k \in 1..Len(AppendedSlots) :
              LET sect == sections[AppendedSlots[k][1]]
                  doc == catalog[sect][AppendedSlots[k][2]]
              IN  /\ sect \in {"GEN", "ENR", "AD"} =>
                        aip_bundle[k].bookmark = sect \o " " \o doc.name
                  /\ sect = "SUP" => aip_bundle[k].bookmark = doc.name

\* a bundle was written with an entry of GEN, an entry of ENR whose display
\* name carries an effective date, and an entry of SUP
C13_Witness ==
    /\ pc = "done"
    /\ \E k \in 1..Len(aip_bundle) : aip_bundle[k].bookmark = "GEN GEN 1.1"
    /\ \E k \in 1..Len(aip_bundle) :
          aip_bundle[k].bookmark = "ENR ENR 1.1 effective 2 January 2024"
    /\ \E k \in 1..Len(aip_bundle) : aip_bundle[k].bookmark = "SUP 24/1"

----------------------------------------------------------------------------
(* C14 *)

\* a GET request was sent for the document at e's position in e's run
Transferred(e) ==
    \E what \in {"Fetched", "FetchFailed"} : Ev(e.run, e.sec, e.idx, what)

\* C14: a document that is answered UpToDate, NotYetEffective or
\* InvalidContentType in a run gets no GET request and no bundle entry in
\* that run; the step that answers leaves the file at its dest_file as it
\* was (present or not, body and times) and the bundle as it was, and goes on
\* to the next document, the next section or the write.
C14_SkipChangesNothing ==
    /\ [](\A e \in events :
            e.what \in SkipVerdicts =>
               /\ ~Transferred(e)
               /\ ~Ev(e.run, e.sec, e.idx, "Appended"))
    /\ [][ \A what \in SkipVerdicts :
             OracleAnswers(what) =>
                /\ exists(dest_file) <=> dest_file \in DOMAIN disk'
                /\ exists(dest_file) => disk'[dest_file] = disk[dest_file]
                /\ aip_bundle' = aip_bundle
                /\ \/ pc' = "oracle" /\ sec' = sec /\ idx' = idx + 1
                   \/ pc' = "section" /\ sec' = sec + 1
                   \/ pc' = "finalize" ]_vars

\* the second of two runs over an old mirror has written its bundle; the
\* first ENR document was answered NotYetEffective in the first run and
\* InvalidContentType in the second, the GEN document UpToDate, and the file
\* of the ENR document is the one of the old mirror
C14_Witness ==
    /\ pc = "done" /\ run = 2
    /\ Ev(1, 2, 1, "NotYetEffective")
    /\ Ev(2, 2, 1, "InvalidContentType")
    /\ Ev(2, 1, 1, "UpToDate")
    /\ exists(<<"ENR", "a.pdf">>)
    /\ disk[<<"ENR", "a.pdf">>] = OldMirror[<<"ENR", "a.pdf">>]

----------------------------------------------------------------------------
(* C15 *)

\* the remote gives a content type, and it is not the PDF one
HasOtherType(doc) ==
    /\ "Content-Type" \in DOMAIN remote[doc.href]
    /\ remote[doc.href]["Content-Type"] # PDF

\* C15: no HEAD request is sent for a document answered NotYetEffective; a
\* document whose effective date is ahead is answered NotYetEffective
\* whatever the remote would say (status, content type, last-modified); and
\* a document past the effective-date rule whose HEAD request succeeds with
\* a content type other than PDF is answered InvalidContentType whatever the
\* times of the local file and the remote.
C15_OracleRuleOrder ==
    /\ [](\A e \in events :
            e.what = "NotYetEffective" => ~Ev(e.run, e.sec, e.idx, "HEAD"))
    /\ [][ \A what \in Answers :
             OracleAnswers(what) =>
                /\ EffectiveLater(document) => what = "NotYetEffective"
                /\ (NotGated(document) /\ HasOtherType(document) /\ what # "HTTPError")
                      => what = "InvalidContentType" ]_vars

\* a document whose remote has another content type than PDF and whose local
\* file reads newer than the remote: answered NotYetEffective without a HEAD
\* request in the first run, and InvalidContentType after a HEAD request in
\* the second
C15_Witness ==
    /\ run = 2
    /\ \E e \in events :
         /\ e.run = 1 /\ e.what = "NotYetEffective"
         /\ HasOtherType(DocAt(e))
         /\ ~Ev(1, e.sec, e.idx, "HEAD")
         /\ Ev(2, e.sec, e.idx, "HEAD")
         /\ Ev(2, e.sec, e.idx, "InvalidContentType")
         /\ exists(PathAt(e))
         /\ fromtimestamp(disk[PathAt(e)].ctime) > LastModified(DocAt(e))

----------------------------------------------------------------------------
(* C16 *)

\* the name has the shape of an effective date and names no real day
BadDate(doc) == doc.effective # <<>> /\ ~strptime_date_ok(doc.effective[1])

\* C16, as stated: a document whose name has the shape of an effective date
\* and names no real day is not held back and is no error: its HEAD request
\* is sent, document_is_up_to_date does not raise on the date, and no run
\* ends on it.
C16_BadDateIsNoError ==
    /\ abort # "ValueError"
    /\ \A e \in events :
         (BadDate(DocAt(e)) /\ e.what \in Answers) =>
            /\ e.what # "ValueError"
            /\ Ev(e.run, e.sec, e.idx, "HEAD")

----------------------------------------------------------------------------
(* C17 *)

\* C17, as stated: two supplements with different display names that a run
\* fetched were written to different files, also when their hrefs end in the
\* same segment.
C17_SupplementsNamedByDisplayName ==
    \A e1, e2 \in events :
        ( /\ e1.what = "Fetched" /\ e2.what = "Fetched"
          /\ e1.run = e2.run
          /\ sections[e1.sec] = "SUP" /\ sections[e2.sec] = "SUP"
          /\ DocAt(e1).name # DocAt(e2).name )
        => PathAt(e1) # PathAt(e2)

----------------------------------------------------------------------------
(* C18 *)

\* the appends run r has made
Appends(r) == {e \in events : e.run = r /\ e.what = "Appended"}

\* C18: a run starts its first section with a new, empty bundle; no run
\* writes the bundle twice; once a run has written the bundle the run is
\* over and the bundle is as it was written; and what a run wrote holds every
\* append the run has made.
C18_BundleLifecycle ==
    /\ (pc = "section" /\ sec = 1) => aip_bundle = <<>>
    /\ \A w1, w2 \in 1..Len(bundle_writes) :
          bundle_writes[w1].run = bundle_writes[w2].run => w1 = w2
    /\ \A w \in 1..Len(bundle_writes) :
          /\ bundle_writes[w].run = run =>
                (pc = "done" /\ aip_bundle = bundle_writes[w].entries)
          /\ Len(bundle_writes[w].entries) = Cardinality(Appends(bundle_writes[w].run))

\* two runs have written their bundles, the first with four entries and the
\* second with fewer
C18_Witness ==
    /\ pc = "done" /\ run = 2
    /\ Len(bundle_writes) = 2
    /\ Len(bundle_writes[1].entries) = 4
    /\ Len(bundle_writes[2].entries) \in 1..3
    /\ aip_bundle = bundle_writes[2].entries

----------------------------------------------------------------------------
(* C19 *)

\* position <<s1, i1>> is not after <<s2, i2>> in the order of processing
NotAfter(s1, i1, s2, i2) == s1 < s2 \/ (s1 = s2 /\ i1 <= i2)

\* C19: an append that raises ends the run where it is: the exception is
\* the one that left sync, the run has touched no document after that one,
\* and the run has written no bundle.
C19_AssemblyFailureAborts ==
    \A e \in events :
        e.what = "AppendFailed" =>
           /\ e.run = run
           /\ pc = "aborted" /\ abort = "PdfReadError"
           /\ sec = e.sec /\ idx = e.idx
           /\ \A e2 \in events :
                 e2.run = e.run => NotAfter(e2.sec, e2.idx, e.sec, e.idx)
           /\ \A w \in 1..Len(bundle_writes) : bundle_writes[w].run # e.run

\* the second run ended on the append of the first ENR document, after the
\* first run had written its bundle; the second ENR document and the
\* supplement were left untouched
C19_Witness ==
    /\ run = 2
    /\ Len(bundle_writes) = 1
    /\ Ev(2, 2, 1, "Fetched")
    /\ Ev(2, 2, 1, "AppendFailed")
    /\ Len(catalog.ENR) = 2 /\ Len(catalog.SUP) >= 1
    /\ pc = "aborted"

----------------------------------------------------------------------------
(* C20 *)

\* C20, as stated: a document of GEN, ENR or AD whose fetch raised in one
\* run is answered NeedsFetch by the next run, whenever that run's HEAD
\* request for it succeeds.
C20_FailedFetchIsRetried ==
    \A e \in events :
        (e.what = "FetchFailed" /\ sections[e.sec] \in StandardSections) =>
           \A what \in Answers \ {"HTTPError"} :
              Ev(e.run + 1, e.sec, e.idx, what) => what = "NeedsFetch"

====
